---------------------------- MODULE Spec2Model ----------------------------
(***************************************************************************)
(* Model of tippytap: the interface-name codec (InterfaceName::from_str,  *)
(* InterfaceName::to_string), the request builder                         *)
(* (InterfaceRequest::tun_set_request) and the DeviceBuilder::open()      *)
(* pipeline (get_fd, flags, tun_set_request, tun_set_interface,           *)
(* to_string).                                                            *)
(*                                                                         *)
(* A Rust &str is a sequence of characters, each its Unicode code point;  *)
(* an InterfaceName is a function 1..IFNAMSIZ -> i8 (c_char on Linux).    *)
(* Rust indices are 0-based: position k of the code is element k+1 here.  *)
(***************************************************************************)
EXTENDS Integers, Sequences, FiniteSets, TLC

\* libc constants used by the code.
IFNAMSIZ == 16
IFF_TUN == 1
IFF_TAP == 2
IFF_NO_PI == 4096

\* Bounds of the inputs.
MaxRun == 17
MaxTail == 2
MaxNameTail == 1
MaxKernelRun == 16

\* Characters the input strings are built from: NUL, 'a', DEL (the largest
\* ASCII character), e-acute (two UTF-8 bytes), the euro sign (three).
Chars == {0, 97, 127, 233, 8364}

\* Bytes (as i8) the raw buffers are built from.
Bytes == {0, 97, 127, -128, -1}

---------------------------------------------------------------------------
(* Strings and buffers *)

RECURSIVE Rep(_, _)
Rep(c, n) == IF n = 0 THEN <<>> ELSE <<c>> \o Rep(c, n - 1)

SeqsUpTo(S, n) == UNION {[1..k -> S] : k \in 0..n}

\* The strings handed to from_str: a run of one character, then a short tail.
Names == {Rep(c, n) \o t : c \in Chars, n \in 0..MaxRun, t \in SeqsUpTo(Chars, MaxTail)}

\* The characters and the names given to DeviceBuilder::name: NUL, 'a' and
\* e-acute, in a run followed by a shorter tail (any name may replace any
\* other, so the set is kept smaller than Names).
NameChars == {0, 97, 233}
BuilderNames == {Rep(c, n) \o t : c \in NameChars, n \in 0..MaxRun, t \in SeqsUpTo(NameChars, MaxNameTail)}

\* A buffer: a run of n bytes c, then the bytes of t, then the byte f to the end.
Buf(c, n, t, f) ==
    [i \in 1..IFNAMSIZ |->
        IF i <= n THEN c
        ELSE IF i - n <= Len(t) THEN t[i - n]
        ELSE f]

\* The raw buffers handed to to_string.
Bufs == {Buf(c, n, t, f) : c \in Bytes, n \in 0..MaxRun, t \in SeqsUpTo(Bytes, MaxTail), f \in Bytes}

\* The names the kernel may leave in a request after a successful TUNSETIFF.
KernelBufs == {Buf(c, n, <<>>, f) : c \in Bytes, n \in 0..MaxKernelRun, f \in Bytes}

\* char::is_ascii
is_ascii(x) == x < 128

\* `x as u8` for a char
as_u8(x) == x % 256

\* `val as c_char` for a u8 (c_char is i8)
as_c_char(v) == IF v >= 128 THEN v - 256 ELSE v

\* `*byte as u8 as char` for an i8
as_char(b) == IF b < 0 THEN b + 256 ELSE b

\* The UTF-8 encoding of one character.
Utf8Char(x) ==
    IF x < 128 THEN <<x>>
    ELSE IF x < 2048 THEN <<192 + (x \div 64), 128 + (x % 64)>>
    ELSE IF x < 65536 THEN <<224 + (x \div 4096), 128 + ((x \div 64) % 64), 128 + (x % 64)>>
    ELSE <<240 + (x \div 262144), 128 + ((x \div 4096) % 64), 128 + ((x \div 64) % 64), 128 + (x % 64)>>

\* str::bytes
RECURSIVE bytes(_)
bytes(name) == IF name = <<>> THEN <<>> ELSE Utf8Char(Head(name)) \o bytes(Tail(name))

\* str::len: the length in bytes
len(name) == Len(bytes(name))

\* Iterator::position: the 0-based index of the first element for which the
\* closure answers true, or -1 (None); hits[i] is the closure's answer for
\* element i.
position(hits) ==
    IF \E i \in 1..Len(hits) : hits[i]
    THEN (CHOOSE i \in 1..Len(hits) : hits[i] /\ \A j \in 1..(i - 1) : ~hits[j]) - 1
    ELSE -1

---------------------------------------------------------------------------
(* error.rs *)

NoError == [kind |-> "none", arg |-> 0]
StringTooLong(n) == [kind |-> "StringTooLong", arg |-> n]
UnexpectedNull(n) == [kind |-> "UnexpectedNull", arg |-> n]
InvalidCharacter(n) == [kind |-> "InvalidCharacter", arg |-> n]
MangledString == [kind |-> "MangledString", arg |-> 0]

NoCreationError == [kind |-> "none", inner |-> NoError]
FileNotFound == [kind |-> "FileNotFound", inner |-> NoError]
PermissionDenied == [kind |-> "PermissionDenied", inner |-> NoError]
UnableToOpenFile(k) == [kind |-> "UnableToOpenFile", inner |-> [kind |-> k, arg |-> 0]]
IoctlError(e) == [kind |-> "IoctlError", inner |-> [kind |-> "Errno", arg |-> e]]
InvalidName(e) == [kind |-> "InvalidName", inner |-> e]

---------------------------------------------------------------------------
(* utils.rs: InterfaceName *)

ZeroBuf == [i \in 1..IFNAMSIZ |-> 0]

NameOk(b) == [ok |-> TRUE, name |-> b, err |-> NoError]
NameErr(e) == [ok |-> FALSE, name |-> ZeroBuf, err |-> e]
StrOk(s) == [ok |-> TRUE, str |-> s, err |-> NoError]
StrErr(e) == [ok |-> FALSE, str |-> <<>>, err |-> e]

\* empty() filled with the character '0' in place of the byte 0.
empty_char_zero == [i \in 1..IFNAMSIZ |-> 48]

\* InterfaceName::empty
empty == ZeroBuf

\* The closure of the scan in from_str: |x| !x.is_ascii() || (x as u8) != 0
ScanPred(x) == ~is_ascii(x) \/ as_u8(x) # 0

\* from_str with its buffer padded with spaces in place of zero bytes.
from_str_space_padded(name) ==
    LET pos == position([i \in 1..Len(name) |-> ScanPred(name[i])])
        bs == bytes(name)
    IN  IF len(name) = 0 THEN NameOk(empty)
        ELSE IF pos # -1 THEN NameErr(InvalidCharacter(pos))
        ELSE IF len(name) >= IFNAMSIZ THEN NameErr(StringTooLong(IFNAMSIZ))
        ELSE NameOk([i \in 1..IFNAMSIZ |-> IF i <= Len(bs) THEN as_c_char(bs[i]) ELSE 32])

\* InterfaceName::from_str
from_str(name) ==
    LET pos == position([i \in 1..Len(name) |-> ScanPred(name[i])])
        bs == bytes(name)
    IN  IF len(name) = 0 THEN NameOk(empty)
        ELSE IF pos # -1 THEN NameErr(InvalidCharacter(pos))
        ELSE IF len(name) >= IFNAMSIZ THEN NameErr(StringTooLong(IFNAMSIZ))
        ELSE NameOk([i \in 1..IFNAMSIZ |-> IF i <= Len(bs) THEN as_c_char(bs[i]) ELSE 0])

\* The closure of the terminator search in to_string: |x| *x == 0
IsNul(b) == b = 0

\* The test of the loop in to_string, negated: !(*byte as u8 as char).is_ascii()
NotAsciiByte(b) == ~is_ascii(as_char(b))

\* to_string without the ASCII test of its loop.
to_string_unchecked(b) ==
    LET end == position([i \in 1..IFNAMSIZ |-> IsNul(b[i])])
    IN  IF end = -1 THEN StrErr(MangledString)
        ELSE StrOk([i \in 1..end |-> as_char(b[i])])

\* InterfaceName::to_string
to_string(b) ==
    LET end == position([i \in 1..IFNAMSIZ |-> IsNul(b[i])])
        bad == position([i \in 1..end |-> NotAsciiByte(b[i])])
    IN  IF end = -1 THEN StrErr(MangledString)
        ELSE IF bad # -1 THEN StrErr(InvalidCharacter(bad))
        ELSE StrOk([i \in 1..end |-> as_char(b[i])])

---------------------------------------------------------------------------
(* utils.rs: InterfaceRequest, get_fd; device.rs: the flags of open() *)

\* Bitwise or of two non-negative integers.
RECURSIVE BitOr(_, _)
BitOr(a, b) ==
    IF a = 0 THEN b
    ELSE IF b = 0 THEN a
    ELSE (IF a % 2 = 1 \/ b % 2 = 1 THEN 1 ELSE 0) + 2 * BitOr(a \div 2, b \div 2)

\* `ifr_flags as c_short`: a c_int cut to 16 bits, two's complement
as_c_short(x) == LET m == x % 65536 IN IF m >= 32768 THEN m - 65536 ELSE m

\* The flags with the packet_info test inverted.
ifr_flags_inverted(mode, packet_info) ==
    LET f0 == 0
        f1 == IF mode = "Tun" THEN BitOr(f0, IFF_TUN) ELSE BitOr(f0, IFF_TAP)
    IN  IF packet_info THEN BitOr(f1, IFF_NO_PI) ELSE f1

\* The flags open() computes from the builder's mode and packet_info.
ifr_flags(mode, packet_info) ==
    LET f0 == 0
        f1 == IF mode = "Tun" THEN BitOr(f0, IFF_TUN) ELSE BitOr(f0, IFF_TAP)
    IN  IF ~packet_info THEN BitOr(f1, IFF_NO_PI) ELSE f1

NoRequest == [built |-> FALSE, name |-> ZeroBuf, flags |-> 0]

\* InterfaceRequest::tun_set_request: the request, or the error of from_str.
tun_set_request(device_name, flags) ==
    LET r == from_str(device_name)
    IN  IF r.ok
        THEN [ok |-> TRUE, req |-> [built |-> TRUE, name |-> r.name, flags |-> flags], err |-> NoError]
        ELSE [ok |-> FALSE, req |-> NoRequest, err |-> r.err]

\* What opening /dev/net/tun can answer: success or the kind of the io::Error.
IoKinds == {"Ok", "NotFound", "PermissionDenied", "Interrupted", "Other"}

\* get_fd: the error of the open mapped to a CreationError.
get_fd(io) ==
    IF io = "Ok" THEN [ok |-> TRUE, err |-> NoCreationError]
    ELSE IF io = "NotFound" THEN [ok |-> FALSE, err |-> FileNotFound]
    ELSE IF io = "PermissionDenied" THEN [ok |-> FALSE, err |-> PermissionDenied]
    ELSE [ok |-> FALSE, err |-> UnableToOpenFile(io)]

\* What ioctl(TUNSETIFF) can answer: 0 for success or an errno (EPERM, EBUSY, EINVAL).
Errnos == {0, 1, 16, 22}

---------------------------------------------------------------------------
(* State *)

VARIABLES
    builder,      \* DeviceBuilder: name (Option<&str>), mode, packet_info
    pi_called,    \* whether DeviceBuilder::packet_info was ever called
    pc,           \* where open() stands
    file,         \* open(): whether the handle on /dev/net/tun is held
    flags,        \* open(): the local ifr_flags
    ifreq,        \* open(): the request, as the control call leaves it
    built,        \* the request as tun_set_request built it
    steps,        \* the steps open() has run, each with whether it succeeded
    ioctl_calls,  \* how many times TUNSETIFF was issued
    result,       \* what open() returned
    c_pc,         \* codec: which call was made
    in_str,       \* codec: the string given to from_str
    in_buf,       \* codec: the buffer given to to_string
    enc,          \* codec: the result of from_str
    dec           \* codec: the result of to_string

dev_vars == <<builder, pi_called, pc, file, flags, ifreq, built, steps, ioctl_calls, result>>
codec_vars == <<c_pc, in_str, in_buf, enc, dec>>
vars == <<dev_vars, codec_vars>>

None == [some |-> FALSE, val |-> <<>>]
Some(s) == [some |-> TRUE, val |-> s]

NoDevice == [name |-> <<>>, mode |-> "none"]
NoResult == [returned |-> FALSE, ok |-> FALSE, device |-> NoDevice, err |-> NoCreationError]
Ok(d) == [returned |-> TRUE, ok |-> TRUE, device |-> d, err |-> NoCreationError]
Err(e) == [returned |-> TRUE, ok |-> FALSE, device |-> NoDevice, err |-> e]

Step(name, ok) == [step |-> name, ok |-> ok]

\* DeviceBuilder::new
new(mode) == [name |-> None, mode |-> mode, packet_info |-> FALSE]

\* The name open() hands to tun_set_request.
requested(b) == IF b.name.some THEN b.name.val ELSE <<>>

CodecIdle ==
    /\ c_pc = "off"
    /\ in_str = <<>>
    /\ in_buf = ZeroBuf
    /\ enc = NameErr(NoError)
    /\ dec = StrErr(NoError)

DeviceIdle ==
    /\ builder = new("Tun")
    /\ pi_called = FALSE
    /\ pc = "off"
    /\ file = FALSE
    /\ flags = 0
    /\ ifreq = NoRequest
    /\ built = NoRequest
    /\ steps = <<>>
    /\ ioctl_calls = 0
    /\ result = NoResult

\* The state after DeviceBuilder::new(mode).
Init ==
    /\ \E mode \in {"Tun", "Tap"} : builder = new(mode)
    /\ pi_called = FALSE
    /\ pc = "Configured"
    /\ file = FALSE
    /\ flags = 0
    /\ ifreq = NoRequest
    /\ built = NoRequest
    /\ steps = <<>>
    /\ ioctl_calls = 0
    /\ result = NoResult
    /\ CodecIdle

---------------------------------------------------------------------------
(* device.rs: DeviceBuilder *)

\* DeviceBuilder::name: overwrites the name, whether or not one was set.
SetName ==
    /\ pc = "Configured"
    /\ \E n \in BuilderNames : builder' = [builder EXCEPT !.name = Some(n)]
    /\ UNCHANGED <<pi_called, pc, file, flags, ifreq, built, steps, ioctl_calls, result, codec_vars>>

\* DeviceBuilder::packet_info
SetPacketInfo ==
    /\ pc = "Configured"
    /\ \E v \in BOOLEAN : builder' = [builder EXCEPT !.packet_info = v]
    /\ pi_called' = TRUE
    /\ UNCHANGED <<pc, file, flags, ifreq, built, steps, ioctl_calls, result, codec_vars>>

\* open(), step 1: let file = get_fd()?
OpenFile ==
    /\ pc = "Configured"
    /\ \E io \in IoKinds :
        LET r == get_fd(io)
        IN  /\ steps' = Append(steps, Step("get_fd", r.ok))
            /\ file' = r.ok
            /\ pc' = IF r.ok THEN "GotFd" ELSE "Returned"
            /\ result' = IF r.ok THEN result ELSE Err(r.err)
    /\ UNCHANGED <<builder, pi_called, flags, ifreq, built, ioctl_calls, codec_vars>>

\* BuildRequest without the `?`: a name that fails to encode is replaced by
\* the empty name and open() goes on.
BuildRequest_no_abort ==
    /\ pc = "GotFd"
    /\ LET f == ifr_flags(builder.mode, builder.packet_info)
           r == tun_set_request(requested(builder), as_c_short(f))
           q == IF r.ok THEN r.req ELSE [built |-> TRUE, name |-> empty, flags |-> as_c_short(f)]
       IN  /\ flags' = f
           /\ steps' = Append(steps, Step("tun_set_request", r.ok))
           /\ ifreq' = q
           /\ built' = q
           /\ pc' = "Built"
           /\ UNCHANGED <<file, result>>
    /\ UNCHANGED <<builder, pi_called, ioctl_calls, codec_vars>>

\* open(), steps 2 and 3: the flags, then
\* let mut ifreq = InterfaceRequest::tun_set_request(name or "", ifr_flags as c_short)?
BuildRequest ==
    /\ pc = "GotFd"
    /\ LET f == ifr_flags(builder.mode, builder.packet_info)
           r == tun_set_request(requested(builder), as_c_short(f))
       IN  /\ flags' = f
           /\ steps' = Append(steps, Step("tun_set_request", r.ok))
           /\ ifreq' = r.req
           /\ built' = r.req
           /\ pc' = IF r.ok THEN "Built" ELSE "Returned"
           /\ file' = r.ok
           /\ result' = IF r.ok THEN result ELSE Err(InvalidName(r.err))
    /\ UNCHANGED <<builder, pi_called, ioctl_calls, codec_vars>>

\* open(), step 4: tun_set_interface(&file, &mut ifreq)?
\* On success the kernel has left the definitive name in the request.
ControlCall ==
    /\ pc = "Built"
    /\ ioctl_calls' = ioctl_calls + 1
    /\ \E e \in Errnos :
        /\ steps' = Append(steps, Step("tun_set_interface", e = 0))
        /\ IF e = 0
           THEN /\ \E k \in KernelBufs \cup {ifreq.name} : ifreq' = [ifreq EXCEPT !.name = k]
                /\ pc' = "Upgraded"
                /\ UNCHANGED <<file, result>>
           ELSE /\ pc' = "Returned"
                /\ file' = FALSE
                /\ result' = Err(IoctlError(e))
                /\ UNCHANGED ifreq
    /\ UNCHANGED <<builder, pi_called, flags, built, codec_vars>>

\* open(), steps 5 and 6: let name = ifreq.get_name().to_string()?; Ok(Device {..})
DecodeName ==
    /\ pc = "Upgraded"
    /\ LET r == to_string(ifreq.name)
       IN  /\ steps' = Append(steps, Step("to_string", r.ok))
           /\ file' = r.ok
           /\ result' = IF r.ok
                        THEN Ok([name |-> r.str, mode |-> builder.mode])
                        ELSE Err(InvalidName(r.err))
    /\ pc' = "Returned"
    /\ UNCHANGED <<builder, pi_called, flags, ifreq, built, ioctl_calls, codec_vars>>

Next == SetName \/ SetPacketInfo \/ OpenFile \/ BuildRequest \/ ControlCall \/ DecodeName

Spec == Init /\ [][Next]_vars

---------------------------------------------------------------------------
(* The codec on its own: from_str and to_string applied to bounded inputs *)

InitCodec ==
    /\ DeviceIdle
    /\ c_pc = "input"
    /\ \/ in_str \in Names /\ in_buf = ZeroBuf
       \/ in_str = <<>> /\ in_buf \in Bufs
    /\ enc = NameErr(NoError)
    /\ dec = StrErr(NoError)

\* InterfaceName::empty()
CallEmpty ==
    /\ c_pc = "input"
    /\ enc' = NameOk(empty)
    /\ c_pc' = "made_empty"
    /\ UNCHANGED <<in_str, in_buf, dec, dev_vars>>

\* InterfaceName::from_str(in_str)
CallFromStr ==
    /\ c_pc = "input"
    /\ enc' = from_str(in_str)
    /\ c_pc' = "encoded"
    /\ UNCHANGED <<in_str, in_buf, dec, dev_vars>>

\* to_string() of the name that from_str or empty() returned
CallRoundTrip ==
    /\ c_pc \in {"encoded", "made_empty"}
    /\ enc.ok
    /\ dec' = to_string(enc.name)
    /\ c_pc' = IF c_pc = "encoded" THEN "round_trip" ELSE "empty_round_trip"
    /\ UNCHANGED <<in_str, in_buf, enc, dev_vars>>

\* to_string() of the raw buffer in_buf
CallToString ==
    /\ c_pc = "input"
    /\ dec' = to_string(in_buf)
    /\ c_pc' = "decoded"
    /\ UNCHANGED <<in_str, in_buf, enc, dev_vars>>

NextCodec == CallEmpty \/ CallFromStr \/ CallRoundTrip \/ CallToString

SpecCodec == InitCodec /\ [][NextCodec]_vars

---------------------------------------------------------------------------
(* Properties *)

Min(S) == CHOOSE x \in S : \A y \in S : x <= y

HasNul(s) == \E i \in 1..Len(s) : s[i] = 0
AllAscii(s) == \A i \in 1..Len(s) : s[i] < 128

\* A name the documentation of open() accepts: non-empty, ASCII only, no NUL,
\* shorter than IFNAMSIZ.
ValidName(s) == Len(s) > 0 /\ AllAscii(s) /\ ~HasNul(s) /\ Len(s) < IFNAMSIZ

HasBit(f, bit) == ((f % 65536) \div bit) % 2 = 1

\* C1: for every ASCII string s without a zero byte and shorter than
\* IFNAMSIZ-1, from_str(s) succeeds and to_string of the buffer returns s.
C1_RoundTrip ==
    (AllAscii(in_str) /\ ~HasNul(in_str) /\ Len(in_str) < IFNAMSIZ - 1) =>
        /\ c_pc = "encoded" => enc.ok
        /\ c_pc = "round_trip" => dec = StrOk(in_str)

\* C2: open() with an explicit valid name, once the file has opened and the
\* control call has succeeded leaving the name in place, returns a Device
\* with that name; it does not fail with InvalidName.
C2_OpenKeepsName ==
    ( /\ pc = "Returned"
      /\ builder.name.some
      /\ ValidName(builder.name.val)
      /\ steps[1].ok
      /\ result.err.kind # "IoctlError"
      /\ ioctl_calls > 0 => ifreq.name = built.name )
    => result = Ok([name |-> builder.name.val, mode |-> builder.mode])

\* C3: for a non-empty string with a non-ASCII character, from_str fails with
\* InvalidCharacter(i), i the index of the first non-ASCII character.
C3_FirstNonAscii ==
    (c_pc = "encoded" /\ ~AllAscii(in_str)) =>
        enc = NameErr(InvalidCharacter(Min({i \in 1..Len(in_str) : in_str[i] >= 128}) - 1))

\* C4: from_str fails with StringTooLong(IFNAMSIZ) for every string of
\* IFNAMSIZ bytes or more. Stated on the strings whose characters are all
\* allowed (ASCII, no NUL), where the length is all from_str can object to.
C4_TooLong ==
    (c_pc = "encoded" /\ AllAscii(in_str) /\ ~HasNul(in_str) /\ len(in_str) >= IFNAMSIZ) =>
        enc = NameErr(StringTooLong(IFNAMSIZ))

\* C5: a name with a NUL character is rejected: once the file has opened,
\* open() returns InvalidName and never issues the control call.
C5_NulRejected ==
    (builder.name.some /\ HasNul(builder.name.val) /\ Len(steps) >= 2) =>
        /\ pc = "Returned"
        /\ result.err.kind = "InvalidName"
        /\ ioctl_calls = 0

\* The reference decoder of an IFNAMSIZ-byte buffer.
RefDecode(b) ==
    IF \A i \in 1..IFNAMSIZ : b[i] # 0 THEN StrErr(MangledString)
    ELSE LET z == Min({i \in 1..IFNAMSIZ : b[i] = 0})
             high == {i \in 1..(z - 1) : b[i] \notin 0..127}
         IN  IF high # {} THEN StrErr(InvalidCharacter(Min(high) - 1))
             ELSE StrOk([i \in 1..(z - 1) |-> b[i]])

\* C6: to_string agrees with the reference decoder on every buffer:
\* MangledString exactly when there is no zero byte, else InvalidCharacter at
\* the first non-ASCII byte before the first zero, else the bytes before the
\* first zero, whatever follows it.
C6_ToStringAgrees == c_pc = "decoded" => dec = RefDecode(in_buf)

\* C6 witness: a decoded name with non-zero bytes after its terminator.
C6_Witness ==
    /\ c_pc = "decoded"
    /\ dec.ok
    /\ Len(dec.str) > 0
    /\ \E i \in (Len(dec.str) + 2)..IFNAMSIZ : in_buf[i] # 0

\* C7: the empty string (and no name at all) encodes to the buffer of
\* IFNAMSIZ zero bytes, which is empty(), and that buffer decodes to the
\* empty string; open() with no name builds its request from it.
C7_AutoName ==
    /\ (Len(steps) >= 2 /\ requested(builder) = <<>>) =>
            /\ steps[2].ok
            /\ built.built
            /\ built.name = ZeroBuf
            /\ built.name = empty
    /\ (Len(steps) = 4 /\ ifreq.name = ZeroBuf) => result = Ok([name |-> <<>>, mode |-> builder.mode])

\* C7 witness: open() with no name, the kernel leaving the all-zero name.
C7_Witness ==
    /\ pc = "Returned"
    /\ ~builder.name.some
    /\ built.name = ZeroBuf
    /\ ifreq.name = ZeroBuf
    /\ result.ok
    /\ result.device.name = <<>>

Order == <<"get_fd", "tun_set_request", "tun_set_interface", "to_string">>

\* The errors each step of open() may end it with.
StepErrors ==
    << {"FileNotFound", "PermissionDenied", "UnableToOpenFile"},
       {"InvalidName"}, {"IoctlError"}, {"InvalidName"} >>

\* C8: open() runs get_fd, tun_set_request, tun_set_interface, to_string in
\* this order; the first failing step ends it with that step's error and no
\* later step runs; the control call is issued at most once and only after
\* the open and the encoding succeeded; a Device needs all four to succeed.
C8_Pipeline ==
    LET n == Len(steps)
    IN  /\ n <= 4
        /\ \A i \in 1..n : steps[i].step = Order[i]
        /\ \A i \in 1..(n - 1) : steps[i].ok
        /\ ioctl_calls = Cardinality({i \in 1..n : steps[i].step = "tun_set_interface"})
        /\ ioctl_calls <= 1
        /\ ioctl_calls = 1 => steps[1].ok /\ steps[2].ok /\ built.built
        /\ result.returned <=> pc = "Returned"
        /\ (n > 0 /\ ~steps[n].ok) =>
                result.returned /\ ~result.ok /\ result.err.kind \in StepErrors[n]
        /\ (result.returned /\ ~result.ok) => (n > 0 /\ ~steps[n].ok)
        /\ (result.returned /\ result.ok) => (n = 4 /\ \A i \in 1..4 : steps[i].ok)

\* C8 witness: open() ended by its last step, the decoding of the name.
C8_Witness ==
    /\ pc = "Returned"
    /\ Len(steps) = 4
    /\ result.err = InvalidName(MangledString)
    /\ ioctl_calls = 1

\* C9: the flags of the request hold the mode bit of the builder's mode and
\* not the other, IFF_NO_PI iff packet_info is false, and nothing else; a
\* builder on which packet_info was never called has IFF_NO_PI.
C9_Flags ==
    built.built =>
        /\ HasBit(built.flags, IFF_TUN) <=> builder.mode = "Tun"
        /\ HasBit(built.flags, IFF_TAP) <=> builder.mode = "Tap"
        /\ HasBit(built.flags, IFF_TUN) # HasBit(built.flags, IFF_TAP)
        /\ HasBit(built.flags, IFF_NO_PI) <=> ~builder.packet_info
        /\ built.flags = (IF builder.mode = "Tun" THEN IFF_TUN ELSE IFF_TAP)
                         + (IF builder.packet_info THEN 0 ELSE IFF_NO_PI)
        /\ built.flags = flags
        /\ ~pi_called => HasBit(built.flags, IFF_NO_PI)

\* C9 witness: a request built for a Tap device with packet info.
C9_Witness ==
    /\ built.built
    /\ builder.mode = "Tap"
    /\ builder.packet_info
    /\ built.flags = IFF_TAP

\* C10: the name of every request tun_set_request built (from empty() or a
\* successful from_str) has a zero byte, its last byte is zero, and
\* to_string of it does not fail with MangledString.
C10_Terminated ==
    built.built =>
        /\ \E i \in 1..IFNAMSIZ : built.name[i] = 0
        /\ built.name[IFNAMSIZ] = 0
        /\ to_string(built.name).err # MangledString
        /\ pc = "Built" => ifreq.name = built.name

\* C10 witness: a request built from a non-empty name, before the control call.
C10_Witness ==
    /\ pc = "Built"
    /\ built.built
    /\ builder.name.some
    /\ Len(builder.name.val) > 0

=============================================================================
